---- MODULE Spec2Model ----
(***************************************************************************)
(* A model of the Mafia ice-breaker: the game orchestrator                 *)
(* (src/publisher.py, class MafiaGame) and the publish/subscribe broker    *)
(* (src/broker.py, class Broker).                                          *)
(*                                                                         *)
(* SpecGame   : the operator's command loop, one action per command line.  *)
(* SpecBroker : the broker's connection handler tasks under asyncio's      *)
(*              cooperative scheduling.                                    *)
(* SpecLink   : the orchestrator and a wristband connected to the broker   *)
(*              over connections with bounded buffers.                     *)
(***************************************************************************)
EXTENDS Integers, Sequences, FiniteSets, TLC

VARIABLES
    \* ---- orchestrator (publisher.py) ----
    players,            \* GameState.players : id -> [role, alive]
    phase,              \* GameState.phase
    pending_kill_id,    \* GameState.pending_kill_id
    pending_save_id,    \* GameState.pending_save_id
    taps_enabled,       \* TapManager.enabled
    sound_enabled,      \* SoundManager.enabled
    loop,               \* MafiaGame.run: "input", "handled", "ended", "crashed"
    writer_closed,      \* whether run closed its connection
    last,               \* what the last command line was and what it did
    \* ---- broker (broker.py) ----
    clients,            \* Broker.clients : client_id -> connection
    subscriptions,      \* Broker.subscriptions : topic -> set of client_id
    task,               \* handle_client task of each connection
    peer,               \* each connection's endpoint and remote state
    iter,               \* the set iterator of each task's publish loop
    wire,               \* deliveries written to each connection
    pubs,               \* the publishes handled so far
    \* ---- connections with bounded buffers ----
    uplink,             \* envelopes written by each peer, not yet read by the broker
    taken,              \* how many of its deliveries each peer has read
    orch                \* the orchestrator's connection: where it is, sends issued / returned

gameVars   == <<players, phase, pending_kill_id, pending_save_id,
                taps_enabled, sound_enabled, loop, writer_closed, last>>
brokerVars == <<clients, subscriptions, task, peer, iter, wire, pubs>>
linkVars   == <<uplink, taken, orch>>
vars       == <<gameVars, brokerVars, linkVars>>

(***************************************************************************)
(*                        ORCHESTRATOR: publisher.py                       *)
(***************************************************************************)

PLAYER_COUNT == 4

\* Optional[int] = None; player ids are 1..PLAYER_COUNT, so 0 is no id.
None == 0

MAFIA     == "mafia"
DOCTOR    == "doctor"
DETECTIVE == "detective"
TOWNFOLK  == "townfolk"
Role      == {TOWNFOLK, MAFIA, DOCTOR, DETECTIVE}

DAY             == "DAY"
NIGHT_MAFIA     == "NIGHT_MAFIA"
NIGHT_DOCTOR    == "NIGHT_DOCTOR"
NIGHT_DETECTIVE == "NIGHT_DETECTIVE"
Phase           == {DAY, NIGHT_MAFIA, NIGHT_DOCTOR, NIGHT_DETECTIVE}

PlayerIds == 1..PLAYER_COUNT

\* TapManager.ROLE_TAPS
ROLE_TAPS == [r \in Role |->
    CASE r = TOWNFOLK -> 1 [] r = MAFIA -> 2 [] r = DOCTOR -> 3 [] r = DETECTIVE -> 4]

\* The orders random.shuffle(roles) can leave the role list in: the first
\* MaxShuffles of ShuffleOrders.  The first four give every id every role.
MaxShuffles == 4

ShuffleOrders ==
    << <<MAFIA, DOCTOR, DETECTIVE, TOWNFOLK>>,
       <<DOCTOR, DETECTIVE, TOWNFOLK, MAFIA>>,
       <<DETECTIVE, TOWNFOLK, MAFIA, DOCTOR>>,
       <<TOWNFOLK, MAFIA, DOCTOR, DETECTIVE>>,
       <<DOCTOR, MAFIA, TOWNFOLK, DETECTIVE>>,
       <<TOWNFOLK, DETECTIVE, DOCTOR, MAFIA>> >>

Shuffles ==
    {ShuffleOrders[k] : k \in {j \in 1..Len(ShuffleOrders) : j <= MaxShuffles}}

(* A command runs on a record g: the fields of MafiaGame it reads and      *)
(* writes, and what the run did: out (what it printed), phases (every      *)
(* value stored into state.phase, after the one it started with), sends    *)
(* (the runs of TapManager.send calls that reached the socket), failAt     *)
(* (the run of sends in which writer.drain raises, 0 for none), ok (no     *)
(* exception so far), resolution (the pending ids and the living players   *)
(* _end_night started from), evaluated (_check_win_condition ran).         *)

\* n consecutive TapManager.send calls.  The command changes no state between
\* them, so whichever of the n raises, the command stops in the same state.
Send(g, n) ==
    IF ~g.ok \/ ~g.taps_enabled \/ n = 0 THEN g
    ELSE IF g.failAt = g.sends + 1
         THEN [g EXCEPT !.ok = FALSE, !.sends = @ + 1]
         ELSE [g EXCEPT !.sends = @ + 1]

Say(g, msg) == IF g.ok THEN [g EXCEPT !.out = @ \cup {msg}] ELSE g

SetPhase(g, ph) == [g EXCEPT !.phase = ph, !.phases = Append(@, ph)]

AliveIds(g) == {i \in DOMAIN g.players : g.players[i].alive}

send_to_role(g, role) ==
    Send(g, Cardinality({i \in AliveIds(g) : g.players[i].role = role}))

send_to_all_alive(g) == Send(g, Cardinality(AliveIds(g)))

distribute_roles(g) == Send(g, Cardinality(DOMAIN g.players))

_get_player(g, player_id) ==
    IF player_id \in DOMAIN g.players THEN player_id ELSE None

_get_alive_player(g, player_id) ==
    LET player == _get_player(g, player_id)
    IN  IF player # None /\ g.players[player].alive THEN player ELSE None

_is_role_alive(g, role) ==
    \E i \in DOMAIN g.players : g.players[i].alive /\ g.players[i].role = role

\* Mutant of _check_win_condition: the Mafia needs a strict majority.
_check_win_condition_strict(g) ==
    LET mafia_alive == Cardinality({i \in AliveIds(g) : g.players[i].role = MAFIA})
        town_alive  == Cardinality({i \in AliveIds(g) : g.players[i].role # MAFIA})
    IN  IF ~g.ok THEN g
        ELSE IF mafia_alive = 0 THEN Say([g EXCEPT !.evaluated = TRUE], "TOWN WINS")
        ELSE IF mafia_alive > town_alive
             THEN Say([g EXCEPT !.evaluated = TRUE], "MAFIA WINS")
        ELSE [g EXCEPT !.evaluated = TRUE]

_check_win_condition(g) ==
    LET mafia_alive == Cardinality({i \in AliveIds(g) : g.players[i].role = MAFIA})
        town_alive  == Cardinality({i \in AliveIds(g) : g.players[i].role # MAFIA})
    IN  IF ~g.ok THEN g
        ELSE IF mafia_alive = 0 THEN Say([g EXCEPT !.evaluated = TRUE], "TOWN WINS")
        ELSE IF mafia_alive >= town_alive
             THEN Say([g EXCEPT !.evaluated = TRUE], "MAFIA WINS")
        ELSE [g EXCEPT !.evaluated = TRUE]

\* Mutant of _wake_everyone: the dead are woken too.
_wake_everyone_revives(g) ==
    IF ~g.ok THEN g
    ELSE send_to_all_alive(SetPhase(
             [g EXCEPT !.players = [i \in DOMAIN g.players |->
                                       [g.players[i] EXCEPT !.alive = TRUE]]],
             DAY))

_wake_everyone(g) ==
    IF ~g.ok THEN g
    ELSE send_to_all_alive(SetPhase(g, DAY))

\* Mutant of _end_night: the doctor's save is ignored.
_end_night_unsaved(g) ==
    IF ~g.ok THEN g
    ELSE
    LET g0 == [g EXCEPT !.resolution = <<[kill  |-> g.pending_kill_id,
                                         save  |-> g.pending_save_id,
                                         alive |-> AliveIds(g)]>>]
        victim == _get_player(g0, g0.pending_kill_id)
        g1 == IF g0.pending_kill_id # None /\ victim # None /\ g0.players[victim].alive
              THEN Send(Say([g0 EXCEPT !.players[victim].alive = FALSE], "killed"), 1)
              ELSE g0
        g2 == IF g1.ok
              THEN [g1 EXCEPT !.pending_kill_id = None, !.pending_save_id = None]
              ELSE g1
    IN  _check_win_condition(_wake_everyone(g2))

\* Mutant of _end_night: the pending ids outlive the resolution.
_end_night_keeps_pending(g) ==
    IF ~g.ok THEN g
    ELSE
    LET g0 == [g EXCEPT !.resolution = <<[kill  |-> g.pending_kill_id,
                                         save  |-> g.pending_save_id,
                                         alive |-> AliveIds(g)]>>]
        victim == _get_player(g0, g0.pending_kill_id)
        g1 == IF g0.pending_kill_id # None /\ victim # None /\ g0.players[victim].alive
              THEN IF g0.pending_save_id = g0.pending_kill_id
                   THEN Say(g0, "saved")
                   ELSE Send(Say([g0 EXCEPT !.players[victim].alive = FALSE],
                                 "killed"), 1)
              ELSE g0
    IN  _check_win_condition(_wake_everyone(g1))

_end_night(g) ==
    IF ~g.ok THEN g
    ELSE
    LET g0 == [g EXCEPT !.resolution = <<[kill  |-> g.pending_kill_id,
                                         save  |-> g.pending_save_id,
                                         alive |-> AliveIds(g)]>>]
        victim == _get_player(g0, g0.pending_kill_id)
        g1 == IF g0.pending_kill_id # None /\ victim # None /\ g0.players[victim].alive
              THEN IF g0.pending_save_id = g0.pending_kill_id
                   THEN Say(g0, "saved")
                   ELSE Send(Say([g0 EXCEPT !.players[victim].alive = FALSE],
                                 "killed"), 1)
              ELSE g0
        g2 == IF g1.ok
              THEN [g1 EXCEPT !.pending_kill_id = None, !.pending_save_id = None]
              ELSE g1
    IN  _check_win_condition(_wake_everyone(g2))

_sleep_and_wake_detective(g) ==
    IF ~g.ok THEN g
    ELSE
    LET g1 == SetPhase(g, NIGHT_DETECTIVE)
    IN  IF ~_is_role_alive(g1, DETECTIVE)
        THEN _end_night(Say(g1, "Detective is dead. Skip"))
        ELSE send_to_role(g1, DETECTIVE)

\* Mutant of _sleep_and_wake_doctor: a dead doctor sends the night straight
\* to its end, without the detective's phase.
_sleep_and_wake_doctor_jump(g) ==
    IF ~g.ok THEN g
    ELSE
    LET g1 == SetPhase(g, NIGHT_DOCTOR)
    IN  IF ~_is_role_alive(g1, DOCTOR)
        THEN _end_night(Say(g1, "Doctor is dead. Skip."))
        ELSE send_to_role(g1, DOCTOR)

_sleep_and_wake_doctor(g) ==
    IF ~g.ok THEN g
    ELSE
    LET g1 == SetPhase(g, NIGHT_DOCTOR)
    IN  IF ~_is_role_alive(g1, DOCTOR)
        THEN _sleep_and_wake_detective(Say(g1, "Doctor is dead. Skip."))
        ELSE send_to_role(g1, DOCTOR)

_wake_mafia(g) ==
    IF ~g.ok THEN g
    ELSE send_to_role(SetPhase(g, NIGHT_MAFIA), MAFIA)

_start_night(g) ==
    IF ~g.ok THEN g
    ELSE _wake_mafia(send_to_all_alive(
            [g EXCEPT !.pending_kill_id = None, !.pending_save_id = None]))

next_phase(g) ==
    IF ~g.ok THEN g
    ELSE CASE g.phase = DAY             -> _start_night(g)
           [] g.phase = NIGHT_MAFIA     -> _sleep_and_wake_doctor(g)
           [] g.phase = NIGHT_DOCTOR    -> _sleep_and_wake_detective(g)
           [] g.phase = NIGHT_DETECTIVE -> _end_night(g)

\* Mutant of _lynch: the lynch also sends the town to sleep.
_lynch_and_sleep(g, target) ==
    next_phase(_check_win_condition(
        Say([g EXCEPT !.players[target].alive = FALSE], "lynched")))

_lynch(g, target) ==
    _check_win_condition(Say([g EXCEPT !.players[target].alive = FALSE], "lynched"))

\* Mutant of kill_player: every phase but DAY takes the kill as a night kill.
kill_player_any_night(g, player_id) ==
    LET target == _get_alive_player(g, player_id)
    IN  IF target = None THEN Say(g, "not a valid target")
        ELSE IF g.phase = DAY THEN _lynch(g, target)
        ELSE next_phase(send_to_role(
                 Say([g EXCEPT !.pending_kill_id = player_id], "Mafia targets"),
                 MAFIA))

kill_player(g, player_id) ==
    LET target == _get_alive_player(g, player_id)
    IN  IF target = None THEN Say(g, "not a valid target")
        ELSE IF g.phase = DAY THEN _lynch(g, target)
        ELSE IF g.phase = NIGHT_MAFIA
             THEN next_phase(send_to_role(
                      Say([g EXCEPT !.pending_kill_id = player_id], "Mafia targets"),
                      MAFIA))
        ELSE g

\* Mutant of save_player: the detective's phase takes a save too.
save_player_any_night(g, player_id) ==
    IF g.phase \notin {NIGHT_DOCTOR, NIGHT_DETECTIVE}
    THEN Say(g, "Saves can only happen during doctor's turn!")
    ELSE IF _get_alive_player(g, player_id) = None THEN Say(g, "not a valid target")
    ELSE next_phase(send_to_role(
             Say([g EXCEPT !.pending_save_id = player_id], "Doctor will protect"),
             DOCTOR))

\* Mutant of save_player: the save is recorded and the phase stays.
save_player_stays(g, player_id) ==
    IF g.phase # NIGHT_DOCTOR THEN Say(g, "Saves can only happen during doctor's turn!")
    ELSE IF _get_alive_player(g, player_id) = None THEN Say(g, "not a valid target")
    ELSE send_to_role(
             Say([g EXCEPT !.pending_save_id = player_id], "Doctor will protect"),
             DOCTOR)

save_player(g, player_id) ==
    IF g.phase # NIGHT_DOCTOR THEN Say(g, "Saves can only happen during doctor's turn!")
    ELSE IF _get_alive_player(g, player_id) = None THEN Say(g, "not a valid target")
    ELSE next_phase(send_to_role(
             Say([g EXCEPT !.pending_save_id = player_id], "Doctor will protect"),
             DOCTOR))

check_player(g, player_id) ==
    IF g.phase # NIGHT_DETECTIVE
    THEN Say(g, "Checks can only happen during detective's turn!")
    ELSE LET target == _get_alive_player(g, player_id)
         IN  IF target = None THEN Say(g, "not a valid target")
             ELSE next_phase(send_to_role(
                      Say(g, IF g.players[target].role = MAFIA
                             THEN "is Mafia" ELSE "is not mafia"),
                      DETECTIVE))

\* repeat_roles(player_id): one player's role code again.
repeat_roles_to(g, player_id) ==
    IF _get_player(g, player_id) = None THEN Say(g, "not found")
    ELSE Send(Say(g, "Repeating role"), 1)

\* repeat_roles(): every player's role code again.
repeat_roles(g) == distribute_roles(Say(g, "Repeating roles"))

\* Mutant of _initialize_players: the role list is indexed one too far.
_initialize_players_off_by_one(g, roles) ==
    [g EXCEPT !.players = [i \in 1..PLAYER_COUNT |->
                             [role  |-> roles[IF i < PLAYER_COUNT THEN i + 1 ELSE i],
                              alive |-> TRUE]],
              !.phase = DAY,
              !.phases = Append(@, DAY),
              !.pending_kill_id = None,
              !.pending_save_id = None]

_initialize_players(g, roles) ==
    [g EXCEPT !.players = [i \in 1..PLAYER_COUNT |-> [role |-> roles[i], alive |-> TRUE]],
              !.phase = DAY,
              !.phases = Append(@, DAY),
              !.pending_kill_id = None,
              !.pending_save_id = None]

reset_game(g, roles) ==
    LET g1 == _initialize_players(Say(g, "Resetting game"), roles)
        original_taps_enabled == g1.taps_enabled
        g2 == distribute_roles([g1 EXCEPT !.taps_enabled = TRUE])
    IN  IF g2.ok THEN [g2 EXCEPT !.taps_enabled = original_taps_enabled] ELSE g2

switch_mode(g, mode, roles) ==
    LET g1 == CASE mode = "taps" ->
                     Say([g EXCEPT !.sound_enabled = FALSE, !.taps_enabled = TRUE],
                         "Switched to TAPS ONLY mode.")
                [] mode = "sounds" ->
                     Say([g EXCEPT !.sound_enabled = TRUE, !.taps_enabled = FALSE],
                         "Switched to SOUNDS ONLY mode.")
                [] mode = "all" ->
                     Say([g EXCEPT !.sound_enabled = TRUE, !.taps_enabled = TRUE],
                         "Switched to ALL (sounds + taps) mode.")
                [] OTHER -> g
    IN  reset_game(g1, roles)


(* An operator line after command.strip().lower().split(): a sequence of   *)
(* tokens.  int() is a partial conversion from tokens to integers.         *)
IntTokens == {"1", "2", "3", "4", "5"}

IntOf(tok) ==
    CASE tok = "1" -> 1 [] tok = "2" -> 2 [] tok = "3" -> 3
      [] tok = "4" -> 4 [] tok = "5" -> 5

\* int(tok) raises ValueError
ValueError(tok) == tok \notin IntTokens

_handle_command(g, parts, roles) ==
    IF Len(parts) = 0 THEN g
    ELSE
    LET command == parts[1] IN
    IF command = "quit" THEN [g EXCEPT !.running = FALSE]
    ELSE IF command = "next" THEN next_phase(g)
    ELSE IF command = "kill" /\ Len(parts) >= 2
         THEN IF ValueError(parts[2]) THEN Say(g, "Usage")
              ELSE kill_player(g, IntOf(parts[2]))
    ELSE IF command = "save" /\ Len(parts) >= 2
         THEN IF ValueError(parts[2]) THEN Say(g, "Usage")
              ELSE save_player(g, IntOf(parts[2]))
    ELSE IF command = "check" /\ Len(parts) >= 2
         THEN IF ValueError(parts[2]) THEN Say(g, "Usage")
              ELSE check_player(g, IntOf(parts[2]))
    ELSE IF command = "repeat"
         THEN IF Len(parts) >= 2
              THEN IF ValueError(parts[2]) THEN Say(g, "Usage")
                   ELSE repeat_roles_to(g, IntOf(parts[2]))
              ELSE repeat_roles(g)
    ELSE IF command = "reset" THEN reset_game(g, roles)
    ELSE IF command = "switch" /\ Len(parts) >= 2 THEN switch_mode(g, parts[2], roles)
    ELSE Say(g, "Unknown command")

\* The lines the operator types.
Words == {"quit", "next", "kill", "save", "check", "repeat", "reset", "switch", "help"}
Lines ==
    {<<>>} \cup {<<w>> : w \in Words}
    \cup {<<w, t>> : w \in {"kill", "save", "check", "repeat"},
                     t \in IntTokens \cup {"x"}}
    \cup {<<"switch", m>> : m \in {"taps", "sounds", "all", "x"}}

\* The state of MafiaGame as a command starts.
Enter(failAt) ==
    [players |-> players, phase |-> phase,
     pending_kill_id |-> pending_kill_id, pending_save_id |-> pending_save_id,
     taps_enabled |-> taps_enabled, sound_enabled |-> sound_enabled,
     running |-> TRUE, out |-> {}, phases |-> <<>>, sends |-> 0,
     failAt |-> failAt, ok |-> TRUE, resolution |-> <<>>, evaluated |-> FALSE]

\* Only reset and switch shuffle the roles.
ShuffleOf(parts) ==
    IF Len(parts) >= 1 /\ (parts[1] = "reset" \/ (parts[1] = "switch" /\ Len(parts) >= 2))
    THEN Shuffles
    ELSE {[i \in 1..PLAYER_COUNT |-> players[i].role]}

Alive == {i \in DOMAIN players : players[i].alive}

\* MafiaGame.run, the body of its loop: read a line, handle it.  An exception
\* of a send leaves the loop and run, and run's writer.close() is not reached.
Command ==
    /\ loop = "input"
    /\ \E parts \in Lines : \E roles \in ShuffleOf(parts) :
       \E failAt \in 0.._handle_command(Enter(0), parts, roles).sends :
          LET g == _handle_command(Enter(failAt), parts, roles) IN
          /\ players' = g.players
          /\ phase' = g.phase
          /\ pending_kill_id' = g.pending_kill_id
          /\ pending_save_id' = g.pending_save_id
          /\ taps_enabled' = g.taps_enabled
          /\ sound_enabled' = g.sound_enabled
          /\ loop' = IF g.ok THEN "handled" ELSE "crashed"
          /\ last' = [parts |-> parts, returned |-> g.ok, running |-> g.running,
                      out |-> g.out, phases |-> g.phases, resolution |-> g.resolution,
                      evaluated |-> g.evaluated,
                      alive |-> Alive, phase |-> phase,
                      pending_kill_id |-> pending_kill_id,
                      pending_save_id |-> pending_save_id,
                      roles_kept |-> \A i \in 1..PLAYER_COUNT :
                                        g.players[i].role = players[i].role]
    /\ UNCHANGED writer_closed
    /\ UNCHANGED brokerVars
    /\ UNCHANGED linkVars

NoLast ==
    [parts |-> <<>>, returned |-> TRUE, running |-> TRUE, out |-> {}, phases |-> <<>>,
     resolution |-> <<>>, evaluated |-> FALSE, alive |-> {},
     phase |-> DAY, pending_kill_id |-> None, pending_save_id |-> None,
     roles_kept |-> TRUE]

\* MafiaGame.run, the loop's test: back to input() while running, else the
\* loop ends and run closes the writer.
Turn ==
    /\ loop = "handled"
    /\ IF last.running
       THEN loop' = "input" /\ UNCHANGED writer_closed
       ELSE loop' = "ended" /\ writer_closed' = TRUE
    /\ last' = NoLast
    /\ UNCHANGED <<players, phase, pending_kill_id, pending_save_id,
                   taps_enabled, sound_enabled>>
    /\ UNCHANGED brokerVars
    /\ UNCHANGED linkVars

\* input() raises EOFError or KeyboardInterrupt: the loop breaks, run closes.
InputEnds ==
    /\ loop = "input"
    /\ loop' = "ended"
    /\ writer_closed' = TRUE
    /\ UNCHANGED <<players, phase, pending_kill_id, pending_save_id,
                   taps_enabled, sound_enabled, last>>
    /\ UNCHANGED brokerVars
    /\ UNCHANGED linkVars

\* run after _connect, _initialize_players and the first distribute_roles.
InitGame ==
    /\ \E roles \in Shuffles :
          players = [i \in 1..PLAYER_COUNT |-> [role |-> roles[i], alive |-> TRUE]]
    /\ phase = DAY
    /\ pending_kill_id = None
    /\ pending_save_id = None
    /\ \E only_sound, only_taps \in BOOLEAN :
          /\ ~(only_sound /\ only_taps)
          /\ taps_enabled = ~only_sound
          /\ sound_enabled = ~only_taps
    /\ loop = "input"
    /\ writer_closed = FALSE
    /\ last = NoLast

(***************************************************************************)
(*                            BROKER: broker.py                            *)
(*                                                                         *)
(* asyncio runs one handle_client task per connection on one thread: a     *)
(* task keeps the thread until it awaits something that is not ready.      *)
(* task[c].pc says where connection c's task is:                           *)
(*   "idle"    not accepted yet                                            *)
(*   "read"    suspended in reader.read                                    *)
(*   "publish" running the loop of Broker.publish                          *)
(*   "drain"   suspended in writer.drain inside that loop                  *)
(*   "closed"  the finally block ran to its end                            *)
(*   "died"    the finally block raised                                    *)
(***************************************************************************)

\* Connections, numbered in the order the server accepts them.
MaxConns == 3
Conns    == 1..MaxConns
\* The peer names (host, port) connections come from.
Addresses == {<<"10.0.0.1", 50001>>, <<"10.0.0.2", 50001>>, <<"10.0.0.1", 50002>>}
Topics   == {"mafia", "chat"}
Payloads == {"tap"}

\* Publishes handled in one run of the model.
MaxPublishes == 1

NoConn == 0

\* client_id = f"client_{address[1]}": the port of the peer name, not its host.
ClientIdOf(address) == <<"client", address[2]>>

IdOf(c) == ClientIdOf(peer[c].address)

\* The JSON objects a peer sends: the two envelopes, and one of another type.
Envelopes ==
    [type : {"subscribe"}, topic : Topics]
    \cup [type : {"publish"}, topic : Topics, payload : Payloads]
    \cup {[type |-> "ping"]}

\* Bytes that are not JSON.
Garbage == [type |-> "not json"]

\* The publish envelopes, which TapManager.send writes with no delimiter.
Publishes == [type : {"publish"}, topic : Topics, payload : Payloads]

\* TCP keeps no message boundaries.  One read can return two envelopes that
\* were written one after the other ...
Coalesced == {<<e, e>> : e \in Publishes}

\* ... or the first bytes of an envelope whose rest comes with a later read.
Fragment(e) == [type |-> "part", of |-> e]
Split == {<<Fragment(e)>> : e \in Publishes}

\* What one reader.read(1024) returns: the texts in the bytes read.
Chunks == {<<e>> : e \in Envelopes} \cup {<<Garbage>>} \cup Coalesced \cup Split

\* json.loads(data.decode()) raises unless the bytes are one JSON text.
DecodeError(data) == Len(data) # 1 \/ data[1] \notin Envelopes

NoIter == [topic |-> "", payload |-> "", pub |-> 0, size |-> 0, todo |-> {},
           target |-> NoConn]

\* No task holds the thread.
NoneRunning == \A c \in Conns : task[c].pc # "publish"

\* The handler of c has been started and has not reached its finally block.
Serving(c) == task[c].pc \in {"read", "publish", "drain"}

\* The tasks suspended in the loop over subscriptions[topic], other than c's.
Suspended(c, topic) ==
    {d \in Conns \ {c} : task[d].pc = "drain" /\ iter[d].topic = topic}

\* The finally block of handle_client (lines 42-48), reached with the
\* exception or the end of input `why`.  del self.clients[client_id] raises
\* KeyError when the entry is gone, and the rest of the block is skipped.
\* discard takes the id out of the sets that suspended loops iterate.
\* writer.close() ends the connection.
Finally(c, why) ==
    LET client_id == IdOf(c) IN
    /\ pubs' = [n \in DOMAIN pubs |->
                  IF pubs[n].by = c /\ pubs[n].state = "running"
                  THEN [pubs[n] EXCEPT !.state = why] ELSE pubs[n]]
    /\ IF client_id \notin DOMAIN clients
       THEN /\ task' = [task EXCEPT ![c].pc = "died"]
            /\ iter' = [iter EXCEPT ![c] = NoIter]
            /\ UNCHANGED <<clients, subscriptions, peer>>
       ELSE /\ clients' = [k \in DOMAIN clients \ {client_id} |-> clients[k]]
            /\ subscriptions' = [t \in DOMAIN subscriptions |->
                                    subscriptions[t] \ {client_id}]
            /\ iter' = [d \in Conns |->
                          IF d = c THEN NoIter
                          ELSE IF task[d].pc = "drain"
                               THEN [iter[d] EXCEPT !.todo = @ \ {client_id}]
                               ELSE iter[d]]
            /\ task' = [task EXCEPT ![c] = [pc |-> "closed", subscribed |-> {}]]
            /\ peer' = [peer EXCEPT ![c].up = FALSE]

\* handle_client up to its first read (lines 13-21).  TCP gives two open
\* connections different peer names; their ports may be the same.
Accept(c) ==
    /\ NoneRunning
    /\ task[c].pc = "idle"
    /\ \A d \in Conns : d < c => task[d].pc # "idle"
    /\ \E address \in Addresses :
          /\ \A d \in Conns \ {c} :
                task[d].pc \notin {"idle", "closed"} => peer[d].address # address
          /\ peer' = [peer EXCEPT ![c] = [address |-> address, up |-> TRUE]]
          /\ clients' = [k \in DOMAIN clients \cup {ClientIdOf(address)} |->
                           IF k = ClientIdOf(address) THEN c ELSE clients[k]]
    /\ task' = [task EXCEPT ![c].pc = "read"]
    /\ UNCHANGED <<subscriptions, iter, wire, pubs>>

\* The remote end of c goes away.
PeerDrops(c) ==
    /\ task[c].pc \notin {"idle", "closed"}
    /\ peer[c].up
    /\ peer' = [peer EXCEPT ![c].up = FALSE]
    /\ UNCHANGED <<clients, subscriptions, task, iter, wire, pubs>>

\* reader.read returns b'' or raises (lines 21-23, 40).
ReadEnds(c) ==
    /\ NoneRunning
    /\ task[c].pc = "read"
    /\ ~peer[c].up
    /\ Finally(c, "ended")
    /\ UNCHANGED wire

\* One turn of the read loop (lines 21-38) on the bytes `data`.
\* subscriptions[topic].add puts a new id into the table a suspended loop
\* iterates, before or behind the point the loop has reached.  A run handles
\* at most `max` publishes.
ReceiveUpTo(c, data, max) ==
    /\ NoneRunning
    /\ task[c].pc = "read"
    /\ peer[c].up
    /\ IF DecodeError(data)
       THEN Finally(c, "ended") /\ UNCHANGED wire
       ELSE
       LET message == data[1] IN
       IF message.type = "subscribe"
       THEN LET topic == message.topic
                old == IF topic \in DOMAIN subscriptions
                       THEN subscriptions[topic] ELSE {}
            IN  /\ subscriptions' =
                      [t \in DOMAIN subscriptions \cup {topic} |->
                          IF t = topic THEN old \cup {IdOf(c)} ELSE subscriptions[t]]
                /\ task' = [task EXCEPT ![c].subscribed = @ \cup {topic}]
                /\ \E behind \in SUBSET Suspended(c, topic) :
                      iter' = [d \in Conns |->
                                 IF d \in behind /\ IdOf(c) \notin old
                                 THEN [iter[d] EXCEPT !.todo = @ \cup {IdOf(c)}]
                                 ELSE iter[d]]
                /\ UNCHANGED <<clients, peer, wire, pubs>>
       ELSE IF message.type = "publish"
       THEN LET topic == message.topic
                n == Len(pubs) + 1
            IN  /\ Len(pubs) < max
                /\ pubs' = Append(pubs,
                      [topic |-> topic, payload |-> message.payload,
                       sender |-> IdOf(c), by |-> c,
                       expect |-> {d \in Conns : /\ Serving(d)
                                                 /\ peer[d].up
                                                 /\ topic \in task[d].subscribed},
                       state |-> IF topic \in DOMAIN subscriptions
                                 THEN "running" ELSE "done"])
                /\ IF topic \in DOMAIN subscriptions
                   THEN /\ task' = [task EXCEPT ![c].pc = "publish"]
                        /\ iter' = [iter EXCEPT ![c] =
                              [topic |-> topic, payload |-> message.payload,
                               pub |-> n,
                               size |-> Cardinality(subscriptions[topic]),
                               todo |-> subscriptions[topic],
                               target |-> NoConn]]
                   ELSE UNCHANGED <<task, iter>>
                /\ UNCHANGED <<clients, subscriptions, peer, wire>>
       ELSE UNCHANGED brokerVars

\* The read loop with the publishes of a run bounded by MaxPublishes.
Receive(c, data) == ReceiveUpTo(c, data, MaxPublishes)

\* Broker.publish, one turn of its loop (lines 58-62).  The set iterator
\* raises RuntimeError when the set's size is not what it was at the start.
\* A write to a connection whose peer is gone is lost and drain yields and
\* then raises; a write to a slow peer can leave drain waiting.
PublishStep(c) ==
    /\ task[c].pc = "publish"
    /\ LET it == iter[c] IN
       IF Cardinality(subscriptions[it.topic]) # it.size
       THEN Finally(c, "set changed") /\ UNCHANGED wire
       ELSE IF it.todo = {}
       THEN /\ task' = [task EXCEPT ![c].pc = "read"]
            /\ iter' = [iter EXCEPT ![c] = NoIter]
            /\ pubs' = [pubs EXCEPT ![it.pub].state = "done"]
            /\ UNCHANGED <<clients, subscriptions, peer, wire>>
       ELSE \E client_id \in it.todo :
            IF client_id \notin DOMAIN clients
            THEN /\ iter' = [iter EXCEPT ![c].todo = @ \ {client_id}]
                 /\ UNCHANGED <<clients, subscriptions, task, peer, wire, pubs>>
            ELSE LET writer == clients[client_id] IN
                 /\ wire' = IF peer[writer].up
                            THEN [wire EXCEPT ![writer] = Append(@,
                                    [topic |-> it.topic, payload |-> it.payload,
                                     sender |-> pubs[it.pub].sender, pub |-> it.pub])]
                            ELSE wire
                 /\ \E waits \in (IF peer[writer].up THEN BOOLEAN ELSE {TRUE}) :
                       /\ iter' = [iter EXCEPT ![c].todo = @ \ {client_id},
                                               ![c].target =
                                                   IF waits THEN writer ELSE NoConn]
                       /\ task' = [task EXCEPT ![c].pc =
                                      IF waits THEN "drain" ELSE "publish"]
                 /\ UNCHANGED <<clients, subscriptions, peer, pubs>>

\* writer.drain returns, or raises because the connection it waited for is
\* lost (line 62); the exception leaves publish and the read loop (line 40).
DrainReturns(c) ==
    /\ NoneRunning
    /\ task[c].pc = "drain"
    /\ IF peer[iter[c].target].up
       THEN /\ task' = [task EXCEPT ![c].pc = "publish"]
            /\ iter' = [iter EXCEPT ![c].target = NoConn]
            /\ UNCHANGED <<clients, subscriptions, peer, pubs>>
       ELSE Finally(c, "write failed")
    /\ UNCHANGED wire

InitBroker ==
    /\ clients = <<>>
    /\ subscriptions = <<>>
    /\ task = [c \in Conns |-> [pc |-> "idle", subscribed |-> {}]]
    /\ peer = [c \in Conns |-> [address |-> <<>>, up |-> FALSE]]
    /\ iter = [c \in Conns |-> NoIter]
    /\ wire = [c \in Conns |-> <<>>]
    /\ pubs = <<>>

\* The broker with no orchestrator process beside it.
NoGame ==
    /\ players = <<>>
    /\ phase = DAY
    /\ pending_kill_id = None
    /\ pending_save_id = None
    /\ taps_enabled = FALSE
    /\ sound_enabled = FALSE
    /\ loop = "ended"
    /\ writer_closed = FALSE
    /\ last = NoLast

\* No peer has written or read anything; the orchestrator is not connected.
NoLink ==
    /\ uplink = [c \in Conns |-> <<>>]
    /\ taken = [c \in Conns |-> 0]
    /\ orch = [pc |-> "off", issued |-> 0, returned |-> 0]

Init == InitGame /\ InitBroker /\ NoLink

NextGame == Command \/ Turn \/ InputEnds

SpecGame == Init /\ [][NextGame]_vars

accept         == \E c \in Conns : Accept(c) /\ UNCHANGED <<gameVars, linkVars>>
peer_drops     == \E c \in Conns : PeerDrops(c) /\ UNCHANGED <<gameVars, linkVars>>
read_ends      == \E c \in Conns : ReadEnds(c) /\ UNCHANGED <<gameVars, linkVars>>
receive        == \E c \in Conns : \E data \in Chunks :
                      Receive(c, data) /\ UNCHANGED <<gameVars, linkVars>>
publish_step   == \E c \in Conns : PublishStep(c) /\ UNCHANGED <<gameVars, linkVars>>
drain_returns  == \E c \in Conns : DrainReturns(c) /\ UNCHANGED <<gameVars, linkVars>>

NextBroker ==
    \/ accept
    \/ peer_drops
    \/ read_ends
    \/ receive
    \/ publish_step
    \/ drain_returns

InitOfBroker == NoGame /\ InitBroker /\ NoLink

SpecBroker == InitOfBroker /\ [][NextBroker]_vars


(***************************************************************************)
(*          ORCHESTRATOR AND WRISTBAND CONNECTED TO THE BROKER             *)
(*                                                                         *)
(* MafiaGame._connect subscribes the orchestrator to TOPIC, the topic it   *)
(* publishes on, and nothing in publisher.py reads self.reader.  A         *)
(* connection holds BufferSize messages in each direction before a drain   *)
(* on it waits: StreamWriter.drain returns once the transport's buffer is  *)
(* below its mark, and the buffers behind it (the sockets', the peer's     *)
(* StreamReader) are bounded.  Connections stay up in this specification,  *)
(* every read returns one envelope, and the two session ids differ.        *)
(***************************************************************************)

\* MafiaGame.TOPIC
TOPIC == "mafia"

\* Messages a connection holds in one direction before drain waits.
BufferSize == 1

\* Calls of TapManager.send in a run.
MaxSends == 4

\* The orchestrator's connection is the first the broker accepts, the
\* wristband's the second.
Orch == 1
Wristband == 2
LinkConns == {Orch, Wristband}

\* Deliveries written to c's connection that its peer has not read.
Unread(c) == Len(wire[c]) - taken[c]

\* Every peer's subscribe to TOPIC has been handled.
AllSubscribed == \A c \in LinkConns : TOPIC \in task[c].subscribed

\* A peer connects and writes its subscribe envelope (_connect, lines 186-195).
link_accept ==
    \E c \in LinkConns :
        /\ Accept(c)
        /\ \A d \in LinkConns \ {c} :
              Serving(d) => ClientIdOf(peer'[c].address) # IdOf(d)
        /\ uplink' = [uplink EXCEPT ![c] = <<[type |-> "subscribe", topic |-> TOPIC]>>]
        /\ orch' = IF c = Orch THEN [orch EXCEPT !.pc = "idle"] ELSE orch
        /\ UNCHANGED <<taken, gameVars>>

\* handle_client reads the next envelope its peer wrote.
link_receive ==
    \E c \in LinkConns :
        /\ uplink[c] # <<>>
        /\ ReceiveUpTo(c, <<Head(uplink[c])>>, MaxSends)
        /\ uplink' = [uplink EXCEPT ![c] = Tail(@)]
        /\ UNCHANGED <<taken, orch, gameVars>>

\* A turn of the fan-out loop: after writer.write, writer.drain waits exactly
\* when the connection written to holds more than BufferSize unread messages.
link_publish_step ==
    \E c \in LinkConns :
        /\ PublishStep(c)
        /\ IF task'[c].pc = "drain"
           THEN Len(wire'[iter'[c].target]) - taken[iter'[c].target] > BufferSize
           ELSE \A w \in Conns :
                   wire'[w] # wire[w] => Len(wire'[w]) - taken[w] <= BufferSize
        /\ UNCHANGED <<linkVars, gameVars>>

\* writer.drain in the fan-out returns once the peer has read enough.
link_drain_returns ==
    \E c \in LinkConns :
        /\ task[c].pc = "drain"
        /\ Unread(iter[c].target) <= BufferSize
        /\ DrainReturns(c)
        /\ UNCHANGED <<linkVars, gameVars>>

\* The wristband reads a delivery.  The orchestrator never does.
wristband_reads ==
    /\ taken[Wristband] < Len(wire[Wristband])
    /\ taken' = [taken EXCEPT ![Wristband] = @ + 1]
    /\ UNCHANGED <<uplink, orch, brokerVars, gameVars>>

\* TapManager.send: writer.write(message) (line 122).
orch_send ==
    /\ orch.pc = "idle"
    /\ orch.issued < MaxSends
    /\ AllSubscribed
    /\ uplink' = [uplink EXCEPT ![Orch] = Append(@,
                     [type |-> "publish", topic |-> TOPIC, payload |-> "tap"])]
    /\ orch' = [orch EXCEPT !.pc = "drain", !.issued = @ + 1]
    /\ UNCHANGED <<taken, brokerVars, gameVars>>

\* TapManager.send: await writer.drain() returns (line 123) once the broker
\* has read enough of what the orchestrator wrote.
orch_drain_returns ==
    /\ orch.pc = "drain"
    /\ Len(uplink[Orch]) <= BufferSize
    /\ orch' = [orch EXCEPT !.pc = "idle", !.returned = @ + 1]
    /\ UNCHANGED <<uplink, taken, brokerVars, gameVars>>

NextLink ==
    \/ link_accept
    \/ link_receive
    \/ link_publish_step
    \/ link_drain_returns
    \/ wristband_reads
    \/ orch_send
    \/ orch_drain_returns

\* asyncio runs every task that is ready, the wristband reads what it is
\* sent, and the operator goes on issuing commands.
LinkFairness ==
    /\ WF_vars(link_accept)
    /\ WF_vars(link_receive)
    /\ WF_vars(link_publish_step)
    /\ WF_vars(link_drain_returns)
    /\ WF_vars(wristband_reads)
    /\ WF_vars(orch_send)
    /\ WF_vars(orch_drain_returns)

SpecLink == InitOfBroker /\ [][NextLink]_vars /\ LinkFairness

(***************************************************************************)
(*                     PROPERTIES OF THE ORCHESTRATOR                      *)
(***************************************************************************)

\* A command was handled: it returned, or an exception of a send ended it.
Handled == loop \in {"handled", "crashed"}
Returned == loop = "handled"

LastOp == IF Len(last.parts) >= 1 THEN last.parts[1] ELSE ""
LastId == IF Len(last.parts) >= 2 /\ last.parts[2] \in IntTokens
          THEN IntOf(last.parts[2]) ELSE None

\* players, phase and the pending ids are what they were before the command.
GameStateUnchanged ==
    /\ Alive = last.alive
    /\ last.roles_kept
    /\ phase = last.phase
    /\ pending_kill_id = last.pending_kill_id
    /\ pending_save_id = last.pending_save_id

SuccPhase(ph) ==
    CASE ph = DAY             -> NIGHT_MAFIA
      [] ph = NIGHT_MAFIA     -> NIGHT_DOCTOR
      [] ph = NIGHT_DOCTOR    -> NIGHT_DETECTIVE
      [] ph = NIGHT_DETECTIVE -> DAY

LastResets == LastOp = "reset" \/ (LastOp = "switch" /\ Len(last.parts) >= 2)

\* The phase before the command, then every value the command stored.
PhaseTrace == <<last.phase>> \o last.phases

\* C2: every change of the stored phase is a step to the next phase of the
\* cycle DAY, NIGHT_MAFIA, NIGHT_DOCTOR, NIGHT_DETECTIVE, DAY, the phases of
\* dead roles included; the one other change is reset (or switch) storing DAY.
\* Only next, kill, save, check, reset and switch store a phase at all.
C2_PhaseOrder ==
    Handled =>
        /\ PhaseTrace[Len(PhaseTrace)] = phase
        /\ \A k \in 1..(Len(PhaseTrace) - 1) :
              \/ PhaseTrace[k + 1] = SuccPhase(PhaseTrace[k])
              \/ LastResets /\ PhaseTrace[k + 1] = DAY
        /\ last.phases # <<>> =>
              LastOp \in {"next", "kill", "save", "check", "reset", "switch"}

\* A kill at NIGHT_MAFIA with doctor and detective dead ran through
\* NIGHT_DOCTOR and NIGHT_DETECTIVE to DAY.
C2_Witness ==
    /\ Returned
    /\ LastOp = "kill"
    /\ last.phase = NIGHT_MAFIA
    /\ last.phases = <<NIGHT_DOCTOR, NIGHT_DETECTIVE, DAY>>

\* C3: night resolution leaves the living players as they were when no kill
\* is pending or when the save is for the pending kill's target; otherwise
\* the pending kill's target, who was alive, is dead and nobody else changed.
C3_Resolution ==
    last.resolution # <<>> =>
        LET r == last.resolution[1] IN
        IF r.kill = None \/ r.save = r.kill
        THEN Alive = r.alive
        ELSE r.kill \in r.alive /\ Alive = r.alive \ {r.kill}

\* A resolution with a save for somebody other than the target: the target died.
C3_Witness ==
    /\ Returned
    /\ last.resolution # <<>>
    /\ last.resolution[1].kill # None
    /\ last.resolution[1].save # None
    /\ last.resolution[1].save # last.resolution[1].kill
    /\ last.resolution[1].kill \notin Alive
    /\ phase = DAY

LegalPhases(op) ==
    CASE op = "kill"  -> {DAY, NIGHT_MAFIA}
      [] op = "save"  -> {NIGHT_DOCTOR}
      [] op = "check" -> {NIGHT_DETECTIVE}

\* The last line was kill, save or check with an integer id.
LastIsAction ==
    /\ LastOp \in {"kill", "save", "check"}
    /\ Len(last.parts) >= 2
    /\ last.parts[2] \in IntTokens

\* C4: a kill, save or check outside its legal phase, or on an id that is no
\* living player, leaves players, phase and both pending ids unchanged.
C4_RejectedActionNoChange ==
    (/\ Handled
     /\ LastIsAction
     /\ \/ last.phase \notin LegalPhases(LastOp)
        \/ LastId \notin last.alive)
    => GameStateUnchanged

\* A kill of a living player was issued at NIGHT_DOCTOR with a kill pending.
C4_Witness ==
    /\ Returned
    /\ LastOp = "kill"
    /\ LastId \in last.alive
    /\ last.phase = NIGHT_DOCTOR
    /\ last.pending_kill_id # None
    /\ last.pending_kill_id # LastId

\* C5: after reset, from any state, each of the 4 roles is held by exactly
\* one of the players 1..4, everyone is alive, the phase is DAY and no kill
\* or save is pending.
C5_ResetState ==
    (Handled /\ LastOp = "reset") =>
        /\ DOMAIN players = 1..4
        /\ \A r \in {MAFIA, DOCTOR, DETECTIVE, TOWNFOLK} :
              Cardinality({i \in DOMAIN players : players[i].role = r}) = 1
        /\ \A i \in DOMAIN players : players[i].alive
        /\ phase = DAY
        /\ pending_kill_id = None
        /\ pending_save_id = None

\* reset was issued at NIGHT_DETECTIVE with a kill and a save pending and a
\* player dead.
C5_Witness ==
    /\ Returned
    /\ LastOp = "reset"
    /\ last.phase = NIGHT_DETECTIVE
    /\ last.pending_kill_id # None
    /\ last.pending_save_id # None
    /\ last.alive # 1..PLAYER_COUNT

LivingMafia == Cardinality({i \in Alive : players[i].role = MAFIA})
LivingTown  == Cardinality({i \in Alive : players[i].role # MAFIA})

\* C6: when a command in which a player died has returned, the win
\* evaluation ran, and on the state after the death it announced Town wins
\* exactly if no Mafia lives, Mafia wins exactly if a Mafia lives and the
\* living Mafia are at least the living others; the loop goes on to the next
\* input whatever was announced.
C6_WinEvaluation ==
    (Returned /\ last.alive \ Alive # {}) =>
        /\ last.evaluated
        /\ ("TOWN WINS" \in last.out) <=> (LivingMafia = 0)
        /\ ("MAFIA WINS" \in last.out) <=> (LivingMafia >= 1 /\ LivingMafia >= LivingTown)
        /\ last.running
        /\ ENABLED Turn

\* A night kill left one Mafia and one other player: Mafia wins was announced.
C6_Witness ==
    /\ Returned
    /\ last.resolution # <<>>
    /\ last.alive \ Alive # {}
    /\ LivingMafia = 1
    /\ LivingTown = 1
    /\ "MAFIA WINS" \in last.out

\* What the code prints on input it does not accept.
Diagnostics ==
    {"Usage", "Unknown command", "not a valid target", "not found",
     "Saves can only happen during doctor's turn!",
     "Checks can only happen during detective's turn!"}

\* The last line is not a valid command: an unknown word, a command without
\* its argument, an argument that is no integer, an id out of range, an
\* unknown mode.
LastIsInvalid ==
    \/ LastOp \notin {"", "quit", "next", "kill", "save", "check", "repeat",
                      "reset", "switch"}
    \/ LastOp \in {"kill", "save", "check", "switch"} /\ Len(last.parts) < 2
    \/ /\ LastOp \in {"kill", "save", "check", "repeat"}
       /\ Len(last.parts) >= 2
       /\ \/ last.parts[2] \notin IntTokens
          \/ LastId \notin 1..PLAYER_COUNT
    \/ /\ LastOp = "switch"
       /\ Len(last.parts) >= 2
       /\ last.parts[2] \notin {"taps", "sounds", "all"}

\* C10: input that is not a valid command leaves players, phase and both
\* pending ids unchanged (and, C10_InvalidInputDiagnosed, prints a diagnostic).
C10_InvalidInputNoChange ==
    (Handled /\ LastIsInvalid) => GameStateUnchanged

C10_InvalidInputDiagnosed ==
    (Handled /\ LastIsInvalid) => last.out \cap Diagnostics # {}

\* The same with the unknown mode of switch left out of the invalid inputs.
C10_OtherInvalidInput ==
    (Handled /\ LastIsInvalid /\ LastOp # "switch") =>
        /\ last.out \cap Diagnostics # {}
        /\ GameStateUnchanged


\* C11: a kill at DAY of a living player leaves exactly that player dead:
\* the other players' alive flags and everybody's role are as before, the
\* phase is DAY and no kill or save is pending.
C11_DayKillIsLynch ==
    (/\ Handled
     /\ LastOp = "kill"
     /\ last.phase = DAY
     /\ LastId \in last.alive)
    =>  /\ Alive = last.alive \ {LastId}
        /\ last.roles_kept
        /\ phase = DAY
        /\ pending_kill_id = None
        /\ pending_save_id = None

\* The Mafia's player was lynched at DAY while two others were dead already.
C11_Witness ==
    /\ Returned
    /\ LastOp = "kill"
    /\ last.phase = DAY
    /\ LastId \in last.alive
    /\ LastId \notin Alive
    /\ players[LastId].role = MAFIA
    /\ Cardinality(Alive) = 1
    /\ phase = DAY

\* The state the last command started from, when it kept the roles.
Before ==
    [Enter(0) EXCEPT
        !.players = [i \in DOMAIN players |->
                        [role |-> players[i].role, alive |-> i \in last.alive]],
        !.phase = last.phase,
        !.pending_kill_id = last.pending_kill_id,
        !.pending_save_id = last.pending_save_id]

\* A player with the role was alive before the last command.
PrevRoleAlive(role) == \E i \in last.alive : players[i].role = role

\* The kill and the save the night holds: the pending ids, or the ones the
\* resolution took if the command ran into it.
RecordedKill ==
    IF last.resolution = <<>> THEN pending_kill_id ELSE last.resolution[1].kill
RecordedSave ==
    IF last.resolution = <<>> THEN pending_save_id ELSE last.resolution[1].save

\* The last command was a kill, save or check in its night phase on a
\* living player.
LastIsAcceptedNightAction ==
    /\ LastIsAction
    /\ last.phase # DAY
    /\ last.phase \in LegalPhases(LastOp)
    /\ LastId \in last.alive

\* C12: when an accepted night action has returned, the phase is where next
\* would have left it from the same state; a kill is recorded as the night's
\* kill and rests at NIGHT_DOCTOR if a doctor lives; a save is recorded as the
\* night's save, leaves the kill, and rests at NIGHT_DETECTIVE if a detective
\* lives; a check ran the resolution and the phase is DAY.
C12_NightActionAdvances ==
    (Returned /\ LastIsAcceptedNightAction) =>
        /\ phase = next_phase(Before).phase
        /\ LastOp = "kill" =>
              /\ RecordedKill = LastId
              /\ PrevRoleAlive(DOCTOR) =>
                    phase = NIGHT_DOCTOR /\ pending_kill_id = LastId
        /\ LastOp = "save" =>
              /\ RecordedSave = LastId
              /\ RecordedKill = last.pending_kill_id
              /\ PrevRoleAlive(DETECTIVE) =>
                    phase = NIGHT_DETECTIVE /\ pending_save_id = LastId
        /\ LastOp = "check" =>
              /\ phase = DAY
              /\ last.resolution # <<>>
              /\ RecordedKill = last.pending_kill_id
              /\ RecordedSave = last.pending_save_id

\* A save of the kill's target, with the detective dead, ran on through the
\* resolution to DAY, and the target lives.
C12_Witness ==
    /\ Returned
    /\ LastOp = "save"
    /\ LastIsAcceptedNightAction
    /\ ~PrevRoleAlive(DETECTIVE)
    /\ last.pending_kill_id = LastId
    /\ RecordedSave = LastId
    /\ LastId \in Alive
    /\ phase = DAY

\* C13: whenever run's loop has ended, by quit, by the end of input or an
\* interrupt, or by a connection error raised in a send, the writer has been
\* closed.
C13_ClosedWhenRunEnds ==
    loop \in {"ended", "crashed"} => writer_closed

\* The other half of C13: after a connection error no further command is read.
C13_ErrorEndsLoop ==
    loop = "crashed" => ~ENABLED Command /\ ~ENABLED Turn

\* No command is under way or was cut short by a connection error.
BetweenCommands == loop \in {"input", "handled", "ended"}

\* C16: between commands, no kill and no save is pending at DAY and at
\* NIGHT_MAFIA, a kill is pending only at NIGHT_DOCTOR and NIGHT_DETECTIVE, a
\* save only at NIGHT_DETECTIVE; after a command that started a night or ran
\* a resolution, neither is pending.
C16_PendingByPhase ==
    BetweenCommands =>
        /\ phase \in {DAY, NIGHT_MAFIA} =>
              pending_kill_id = None /\ pending_save_id = None
        /\ pending_kill_id # None => phase \in {NIGHT_DOCTOR, NIGHT_DETECTIVE}
        /\ pending_save_id # None => phase = NIGHT_DETECTIVE
        /\ (Returned /\ LastOp = "next" /\ last.phase = DAY) =>
              pending_kill_id = None /\ pending_save_id = None
        /\ (Returned /\ last.resolution # <<>>) =>
              pending_kill_id = None /\ pending_save_id = None

\* A resolution that found a kill and a save for the same player has left
\* DAY with nothing pending.
C16_Witness ==
    /\ Returned
    /\ last.resolution # <<>>
    /\ last.resolution[1].kill # None
    /\ last.resolution[1].save = last.resolution[1].kill
    /\ phase = DAY
    /\ pending_kill_id = None
    /\ pending_save_id = None

\* A player with the role is alive.
RoleAlive(role) == \E i \in Alive : players[i].role = role

\* The role that acts in a night phase.
RoleOf(ph) ==
    CASE ph = NIGHT_MAFIA     -> MAFIA
      [] ph = NIGHT_DOCTOR    -> DOCTOR
      [] ph = NIGHT_DETECTIVE -> DETECTIVE

\* C17: when a command has returned and the phase is a night phase, a player
\* with that phase's role is alive.
C17_NoRestInDeadPhase ==
    (Returned /\ phase # DAY) => RoleAlive(RoleOf(phase))

\* The last command was a kill, save or check that the code did not act on:
\* outside its legal phase, or on an id that is no living player.
LastIsRejectedAction ==
    /\ LastIsAction
    /\ \/ last.phase \notin LegalPhases(LastOp)
       \/ LastId \notin last.alive

\* C19: a kill, save or check that is rejected prints a diagnostic.
C19_RejectedActionDiagnosed ==
    (Handled /\ LastIsRejectedAction) => last.out \cap Diagnostics # {}

\* The same without the kills outside DAY and NIGHT_MAFIA on a living player.
C19_OtherRejectionsDiagnosed ==
    (/\ Handled
     /\ LastIsRejectedAction
     /\ ~(LastOp = "kill" /\ LastId \in last.alive))
    => last.out \cap Diagnostics # {}

\* C20: a command that starts with a kill pending never replaces it: the
\* pending kill is the same afterwards, or it is None after a resolution,
\* which used that kill, or after a reset; a kill becomes pending only from
\* None, at NIGHT_MAFIA.  The same holds for the save, at NIGHT_DOCTOR.
C20_PendingSetOnce ==
    Handled =>
        /\ last.pending_kill_id # None =>
              /\ pending_kill_id \in {last.pending_kill_id, None}
              /\ last.resolution # <<>> =>
                    last.resolution[1].kill = last.pending_kill_id
              /\ pending_kill_id = None => (last.resolution # <<>> \/ LastResets)
        /\ last.pending_save_id # None =>
              /\ pending_save_id \in {last.pending_save_id, None}
              /\ last.resolution # <<>> =>
                    last.resolution[1].save = last.pending_save_id
              /\ pending_save_id = None => (last.resolution # <<>> \/ LastResets)
        /\ pending_kill_id \notin {last.pending_kill_id, None} =>
              last.pending_kill_id = None /\ last.phase = NIGHT_MAFIA
        /\ pending_save_id \notin {last.pending_save_id, None} =>
              last.pending_save_id = None /\ last.phase = NIGHT_DOCTOR

\* A save for another living player was issued at NIGHT_DETECTIVE with a
\* save pending, and the pending save is the one it was.
C20_Witness ==
    /\ Returned
    /\ LastOp = "save"
    /\ last.phase = NIGHT_DETECTIVE
    /\ LastId \in last.alive
    /\ last.pending_save_id # None
    /\ last.pending_save_id # LastId
    /\ pending_save_id = last.pending_save_id

\* C21: a command other than reset and switch leaves no player alive who
\* was dead before it, and leaves at most one player dead who was alive.
C21_DeathIsPermanent ==
    (Handled /\ ~LastResets) =>
        /\ Alive \subseteq last.alive
        /\ Cardinality(last.alive \ Alive) <= 1

\* A save at NIGHT_DOCTOR named a dead player, who is still dead, and a
\* resolution with a kill pending has left another player dead in an
\* earlier night.
C21_Witness ==
    /\ Returned
    /\ LastOp = "save"
    /\ last.phase = NIGHT_DOCTOR
    /\ LastId \in 1..PLAYER_COUNT
    /\ LastId \notin last.alive
    /\ LastId \notin Alive
    /\ Cardinality(Alive) = 2

(***************************************************************************)
(*                        PROPERTIES OF THE BROKER                         *)
(***************************************************************************)

\* The deliveries of publish n written to connection c.
Copies(c, n) == Cardinality({k \in DOMAIN wire[c] : wire[c][k].pub = n})

\* Connection c is served and its peer is there.
Live(c) == Serving(c) /\ peer[c].up

\* C1: once the fan-out of a publish to topic T has ended, every session
\* that was live and subscribed to T when the publish arrived, and is still
\* live, has exactly one delivery of it, with the topic, the payload and the
\* publisher's id; every session that was not subscribed to T has none.
C1_ExactlyOnePerSubscriber ==
    \A n \in DOMAIN pubs :
        pubs[n].state # "running" =>
            \A c \in Conns :
                /\ (c \in pubs[n].expect /\ Live(c)) => Copies(c, n) = 1
                /\ c \notin pubs[n].expect => Copies(c, n) = 0
                /\ \A k \in DOMAIN wire[c] :
                      wire[c][k].pub = n =>
                          /\ wire[c][k].topic = pubs[n].topic
                          /\ wire[c][k].payload = pubs[n].payload
                          /\ wire[c][k].sender = pubs[n].sender

\* The step is connection c's task reading bytes that are not an envelope.
MalformedRead(c) ==
    /\ task[c].pc = "read"
    /\ peer[c].up
    /\ NoneRunning
    /\ task'[c].pc \in {"closed", "died"}

\* The topics the registry holds connection c's id in.
TopicsOf(c) == {t \in DOMAIN subscriptions : IdOf(c) \in subscriptions[t]}

\* C7: when a session sends a malformed envelope, that session is closed,
\* its id is out of the session map and of every topic, and every other
\* session keeps its task, its entry in the session map and its topics.
C7_MalformedIsolated ==
    [][\A c \in Conns :
          MalformedRead(c) =>
              /\ task'[c].pc = "closed"
              /\ \A t \in DOMAIN subscriptions' : IdOf(c) \notin subscriptions'[t]
              /\ \A d \in Conns \ {c} :
                    /\ task'[d] = task[d]
                    /\ Serving(d) =>
                          /\ TopicsOf(d)' = TopicsOf(d)
                          /\ \A k \in DOMAIN clients :
                                clients[k] = d =>
                                    k \in DOMAIN clients' /\ clients'[k] = d
      ]_vars

\* The step is the return of the drain of a write to the lost connection of
\* another session, in the fan-out of connection c's task, whose own peer is
\* there.
WriteFailure(c) ==
    /\ task[c].pc = "drain"
    /\ iter[c].target # c
    /\ peer[c].up
    /\ ~peer[iter[c].target].up
    /\ task'[c].pc # "drain"

\* C8: a write failure in a fan-out leaves the publishing session served and
\* its fan-out going on, with the subscribers not yet written to still to come.
C8_WriteFailureIsolated ==
    [][\A c \in Conns :
          WriteFailure(c) =>
              /\ task'[c].pc = "publish"
              /\ iter'[c].todo = iter[c].todo
              /\ pubs'[iter[c].pub].state = "running"
      ]_vars

\* C9: every id in a topic's set is in the session map, for a connection
\* that is being served; and no handler has raised while disconnecting.
C9_RegistryOnlyLive ==
    /\ \A t \in DOMAIN subscriptions :
          \A id \in subscriptions[t] :
              id \in DOMAIN clients /\ Serving(clients[id])
    /\ \A c \in Conns : task[c].pc # "died"

\* C14: two connections that are served at the same time have different
\* session ids.
C14_UniqueIds ==
    \A c, d \in Conns :
        (c # d /\ Serving(c) /\ Serving(d)) => IdOf(c) # IdOf(d)

\* C15: a read that returns two well-formed envelopes at once, or the first
\* part of one, leaves the session served; of two envelopes read at once the
\* first is processed at that read.
C15_FramingIndependent ==
    [][\A c \in Conns : \A data \in Coalesced \cup Split :
          Receive(c, data) =>
              /\ Serving(c)'
              /\ data \in Coalesced => Len(pubs') > Len(pubs)
      ]_vars

\* The step is a turn of the fan-out loop of connection c's task, whose peer
\* is there, after a subscribe or a disconnect of another task changed the
\* size of the topic's set while the loop was suspended in a drain.
ResumesOnChangedSet(c) ==
    /\ task[c].pc = "publish"
    /\ peer[c].up
    /\ Cardinality(subscriptions[iter[c].topic]) # iter[c].size
    /\ task'[c] # task[c] \/ iter'[c] # iter[c]

\* C18: a fan-out that resumes after another task subscribed to its topic or
\* a subscriber of its topic disconnected goes on or ends normally, and the
\* publishing session is still served.
C18_FanOutSurvivesInterleaving ==
    [][\A c \in Conns :
          ResumesOnChangedSet(c) =>
              /\ Serving(c)'
              /\ pubs'[iter[c].pub].state \in {"running", "done"}
      ]_vars

(***************************************************************************)
(*                 PROPERTIES OF THE CONNECTED PROCESSES                   *)
(***************************************************************************)

\* C22: every send the orchestrator issues returns in the end, and its
\* publish is delivered once to the wristband.
C22_NoDeadlock ==
    \A k \in 1..MaxSends :
        (orch.issued >= k) ~> (orch.returned >= k /\ Copies(Wristband, k) = 1)

\* The orchestrator and the broker task that serves it wait for each other:
\* each is suspended in a drain that the other would have to read for.
Deadlocked ==
    /\ orch.pc = "drain"
    /\ Len(uplink[Orch]) > BufferSize
    /\ task[Orch].pc = "drain"
    /\ iter[Orch].target = Orch
    /\ Unread(Orch) > BufferSize

\* The safety half of C22: the two are never suspended on each other.
C22_NeverDeadlocked == ~Deadlocked

====
